---- MODULE Spec2Model ----
(***************************************************************************)
(* The availability / booking engine of the medical appointment agent:     *)
(* MockCalendlyAPI (src/mock_calendly.py) over its JSON appointment store, *)
(* with the catalog of src/schemas.py.                                     *)
(*                                                                         *)
(* Strings are modelled by their characters: a date string "YYYY-MM-DD" is *)
(* the triple of its digit groups and a time string "HH:MM" the pair of    *)
(* its digit groups, so that "2026-11-06" and "2026-11-6" are different    *)
(* strings that strptime parses to the same date.                          *)
(***************************************************************************)
EXTENDS Integers, Sequences, FiniteSets, TLC

(***************************************************************************)
(* Bounds of the model.                                                    *)
(***************************************************************************)
\* calls (bookings, cancellations) that go on to write the store in one behaviour
MaxCommits == 2
\* distinct values the uuid4() prefixes take in one behaviour
MaxUuid == 2

\* the concurrent callers (chat sessions) of the one global calendly_api
Procs == {"s1", "s2"}

(***************************************************************************)
(* Catalog (src/schemas.py).                                               *)
(***************************************************************************)
Types == {"general_consultation", "follow_up", "physical_exam", "specialist_consultation"}

APPOINTMENT_TYPES(t) ==
    CASE t = "general_consultation"    -> [duration |-> 30]
      [] t = "follow_up"               -> [duration |-> 15]
      [] t = "physical_exam"           -> [duration |-> 45]
      [] t = "specialist_consultation" -> [duration |-> 60]

(***************************************************************************)
(* datetime: parsing, formatting, calendar.                                *)
(***************************************************************************)
RECURSIVE int(_)
\* int("09") = 9: the value of a string of decimal digits (the two-digit case
\* is spelt out)
int(ds) ==
    IF Len(ds) = 2 THEN ds[1] * 10 + ds[2]
    ELSE IF ds = <<>> THEN 0
    ELSE int(SubSeq(ds, 1, Len(ds) - 1)) * 10 + ds[Len(ds)]

is_leap(year) == year % 4 = 0 /\ (year % 100 # 0 \/ year % 400 = 0)

days_in_month(year, month) ==
    IF month = 2 THEN (IF is_leap(year) THEN 29 ELSE 28)
    ELSE IF month \in {4, 6, 9, 11} THEN 30 ELSE 31

RECURSIVE days_before_month(_, _)
days_before_month(year, month) ==
    IF month = 1 THEN 0
    ELSE days_before_month(year, month - 1) + days_in_month(year, month - 1)

days_before_year(year) ==
    LET y == year - 1 IN y * 365 + (y \div 4) - (y \div 100) + (y \div 400)

\* date.toordinal()
toordinal(d) == days_before_year(d.year) + days_before_month(d.year, d.month) + d.day

\* date.weekday(): Monday = 0 .. Sunday = 6
weekday(d) == (toordinal(d) + 6) % 7

\* datetime.strptime(s, "%Y-%m-%d") succeeds: %Y is four digits, %m and %d one
\* or two digits naming a month and a day of that month
date_parses(s) ==
    /\ Len(s[1]) = 4
    /\ Len(s[2]) \in {1, 2} /\ int(s[2]) \in 1..12
    /\ Len(s[3]) \in {1, 2} /\ int(s[3]) >= 1
    /\ int(s[3]) <= days_in_month(int(s[1]), int(s[2]))

\* datetime.strptime(s, "%Y-%m-%d").date()
strptime_date(s) == [year |-> int(s[1]), month |-> int(s[2]), day |-> int(s[3])]

\* datetime.strptime(s, "%H:%M") succeeds: one or two digits each, 0..23 and 0..59
time_parses(s) ==
    /\ Len(s[1]) \in {1, 2} /\ int(s[1]) <= 23
    /\ Len(s[2]) \in {1, 2} /\ int(s[2]) <= 59

\* datetime.strptime(s, "%H:%M"), as minutes since midnight
strptime_time(s) == int(s[1]) * 60 + int(s[2])

two_digits(n) == <<n \div 10, n % 10>>

\* strftime("%H:%M") of a time of day given in minutes since midnight; a
\* timedelta sum past midnight lands on the next day and prints its time of day
strftime_HM(mins) == <<two_digits((mins % 1440) \div 60), two_digits(mins % 60)>>

(***************************************************************************)
(* Inputs the callers draw from.                                           *)
(***************************************************************************)
\* "2026-11-04" (Wednesday), "2026-11-06" (Friday), "2026-11-07" (Saturday),
\* "2026-11-09" and "2026-11-9" (the same Monday), "26-11-09" (no date: %Y
\* wants four digits)
Wed == << <<2,0,2,6>>, <<1,1>>, <<0,4>> >>
Fri == << <<2,0,2,6>>, <<1,1>>, <<0,6>> >>
Sat == << <<2,0,2,6>>, <<1,1>>, <<0,7>> >>
Mon == << <<2,0,2,6>>, <<1,1>>, <<0,9>> >>
MonShort == << <<2,0,2,6>>, <<1,1>>, <<9>> >>
NoDate == << <<2,6>>, <<1,1>>, <<0,9>> >>

DateStrings == {Wed, Fri, Sat, Mon, MonShort, NoDate}

\* "09:00", "09:15", "9:00" (parses to 09:00), "25:00" (no time)
T0900 == << <<0,9>>, <<0,0>> >>
T0915 == << <<0,9>>, <<1,5>> >>
T900 == << <<9>>, <<0,0>> >>
NoTime == << <<2,5>>, <<0,0>> >>

TimeStrings == {T0900, T0915, T900, NoTime}

\* the readings datetime.now() takes, in order: Friday 2026-11-06 08:59, 09:00,
\* and 17:30, when the last slot of the day has started
ClockSchedule ==
    << [date |-> [year |-> 2026, month |-> 11, day |-> 6], hour |-> 8, minute |-> 59],
       [date |-> [year |-> 2026, month |-> 11, day |-> 6], hour |-> 9, minute |-> 0],
       [date |-> [year |-> 2026, month |-> 11, day |-> 6], hour |-> 17, minute |-> 30] >>

(***************************************************************************)
(* State.                                                                  *)
(***************************************************************************)
VARIABLES
    file,       \* data/appointments.json
    clock,      \* position of datetime.now() in ClockSchedule
    pc,         \* where each caller stands in its call
    call,       \* each caller's call: operation, request and local variables
    resp,       \* the value each caller's call has returned
    uuids,      \* how many distinct uuid4() values the ids and the codes have taken
    commits,    \* history: calls so far that went on to write the store
    pre,        \* history: the file and the clock when each caller's call began, and
                \* whether the call repeats the one before it
    granted,    \* history: the appointments returned with status confirmed
    cancelled   \* history: the booking ids cancel_appointment returned True for

vars == <<file, clock, pc, call, resp, uuids, commits, pre, granted, cancelled>>

NoCall == [op |-> "none"]
NoResp == [op |-> "none"]

\* datetime.now()
now == ClockSchedule[clock]

(***************************************************************************)
(* Appointment store (src/mock_calendly.py).                               *)
(***************************************************************************)
\* The file holds JSON ("json"), nothing ("empty", as open(path, 'w') leaves it)
\* or bytes that are no JSON document ("garbage").
\* the file _ensure_appointments_file creates, and json.dump leaves
WrittenFile(appointments) == [kind |-> "json", appointments |-> appointments]

\* the file after open(path, 'w') and before json.dump has written it
TruncatedFile == [kind |-> "empty", appointments |-> <<>>]

\* a partly written or partly overwritten file
GarbageFile == [kind |-> "garbage", appointments |-> <<>>]

\* _load_appointments: the list in the file, [] when open or json.load raises
load_appointments(f) == IF f.kind = "json" THEN f.appointments ELSE <<>>

\* the files a completed json.dump can leave when it writes `appointments` from
\* the start of a file that holds f: another writer's longer document keeps its
\* tail behind the new one, and the result is no JSON
dumped_over(f, appointments) ==
    IF f.kind = "empty" THEN {WrittenFile(appointments)}
    ELSE IF f.kind = "json" /\ Len(f.appointments) < Len(appointments)
    THEN {WrittenFile(appointments)}
    ELSE IF f.kind = "json" /\ Len(f.appointments) > Len(appointments)
    THEN {GarbageFile}
    ELSE {WrittenFile(appointments), GarbageFile}

(***************************************************************************)
(* get_availability.                                                       *)
(***************************************************************************)
time_to_minutes(t) == int(t[1]) * 60 + int(t[2])

slots_overlap(start1, end1, start2, end2) ==
    LET s1 == time_to_minutes(start1)
        e1 == time_to_minutes(end1)
        s2 == time_to_minutes(start2)
        e2 == time_to_minutes(end2)
    IN  s1 < e2 /\ s2 < e1

\* date < date
date_before(a, b) == toordinal(a) < toordinal(b)

\* a comparison of the months only, where the code compares the dates
is_past_by_month(req_date, n) ==
    \/ req_date.year < n.date.year
    \/ req_date.year = n.date.year /\ req_date.month < n.date.month

\* req_date < datetime.now().date()
is_past(req_date, n) == date_before(req_date, n.date)

\* a weekend of Sunday only, where the code's starts on Saturday
is_weekend_sunday_only(req_date) == weekday(req_date) > 5

\* req_date.weekday() >= 5
is_weekend(req_date) == weekday(req_date) >= 5

business_start == 9 * 60
business_end == 17 * 60
\* a stride of ten minutes, where the code's is fifteen
slot_step_ten == 2 * 5

slot_step == 15

\* the (start_time, end_time) of the confirmed appointments whose date string
\* equals the requested date string
booked_slots(existing_appointments, date_s) ==
    LET on_date(appt) == appt.date = date_s /\ appt.status = "confirmed"
    IN  SelectSeq(existing_appointments, on_date)

\* a slot that starts in the current minute counted as still to come, where
\* the code counts it as passed
slot_elapsed_strict(slot_start, n) ==
    LET slot_hour == int(slot_start[1])
        slot_minute == int(slot_start[2])
    IN  \/ slot_hour < n.hour
        \/ slot_hour = n.hour /\ slot_minute < n.minute

\* the slot has already passed today
slot_elapsed(slot_start, n) ==
    LET slot_hour == int(slot_start[1])
        slot_minute == int(slot_start[2])
    IN  \/ slot_hour < n.hour
        \/ slot_hour = n.hour /\ slot_minute <= n.minute

RECURSIVE slot_times_one_step(_, _)
\* slots that end one stride after they start, where the code's end `duration`
\* minutes after
slot_times_one_step(current_time, duration) ==
    IF current_time + duration <= business_end
    THEN <<[start_time |-> strftime_HM(current_time),
            end_time |-> strftime_HM(current_time + slot_step)]>>
         \o slot_times_one_step(current_time + slot_step, duration)
    ELSE <<>>

RECURSIVE slot_times_start_only(_, _)
\* a loop that goes on while the slot starts before the end of the day, where
\* the code's goes on while the slot ends by then
slot_times_start_only(current_time, duration) ==
    IF current_time < business_end
    THEN <<[start_time |-> strftime_HM(current_time),
            end_time |-> strftime_HM(current_time + duration)]>>
         \o slot_times_start_only(current_time + slot_step, duration)
    ELSE <<>>

RECURSIVE slot_times_strict(_, _)
\* a loop that stops before the slot that ends at the end of the day, where the
\* code's keeps it
slot_times_strict(current_time, duration) ==
    IF current_time + duration < business_end
    THEN <<[start_time |-> strftime_HM(current_time),
            end_time |-> strftime_HM(current_time + duration)]>>
         \o slot_times_strict(current_time + slot_step, duration)
    ELSE <<>>

RECURSIVE slot_times(_, _)
\* the while loop, lines 104-109 and 135: the start and end strings of every
\* slot of the day, 15 minutes apart
slot_times(current_time, duration) ==
    IF current_time + duration <= business_end
    THEN <<[start_time |-> strftime_HM(current_time),
            end_time |-> strftime_HM(current_time + duration)]>>
         \o slot_times(current_time + slot_step, duration)
    ELSE <<>>

\* the loop's slots for each duration of the catalog (they depend on nothing else)
day_slots == [duration \in {APPOINTMENT_TYPES(t).duration : t \in Types} |->
                 slot_times(business_start, duration)]

\* lines 111-132: one TimeSlot of the loop
time_slot(slot, booked, req_date, n) ==
    LET free == ~ \E i \in 1..Len(booked) :
                    slots_overlap(slot.start_time, slot.end_time,
                                  booked[i].start_time, booked[i].end_time)
        is_available == IF req_date = n.date /\ slot_elapsed(slot.start_time, n)
                        THEN FALSE ELSE free
    IN  [start_time |-> slot.start_time, end_time |-> slot.end_time,
         available |-> is_available]

\* a list that outlives the call, where the code's available_slots is a local
\* that starts empty: the slots a caller still holds come before the new ones
all_slots_kept(duration, booked, req_date, n) ==
    LET held == {p \in Procs : resp[p].op = "get_availability"}
        kept == IF held = {} THEN <<>> ELSE resp[CHOOSE p \in held : TRUE].available_slots
    IN  kept \o [i \in 1..Len(day_slots[duration]) |->
                    time_slot(day_slots[duration][i], booked, req_date, n)]

\* lines 102-135: available_slots when the loop ends
all_slots(duration, booked, req_date, n) ==
    [i \in 1..Len(day_slots[duration]) |->
        time_slot(day_slots[duration][i], booked, req_date, n)]

AvailabilityResponse(date_s, type, slots, total) ==
    [op |-> "get_availability", date |-> date_s, appointment_type |-> type,
     available_slots |-> slots, total_slots |-> total]

slot_is_available(slot) == slot.available

get_availability(f, n, date_s, type) ==
    IF ~ date_parses(date_s) THEN AvailabilityResponse(date_s, type, <<>>, 0)
    ELSE LET req_date == strptime_date(date_s) IN
         IF is_past(req_date, n) THEN AvailabilityResponse(date_s, type, <<>>, 0)
         ELSE IF is_weekend(req_date) THEN AvailabilityResponse(date_s, type, <<>>, 0)
         ELSE LET duration == APPOINTMENT_TYPES(type).duration
                  booked == booked_slots(load_appointments(f), date_s)
                  available_slots == all_slots(duration, booked, req_date, n)
                  available_only == SelectSeq(available_slots, slot_is_available)
              IN  AvailabilityResponse(date_s, type, available_only, Len(available_only))

(***************************************************************************)
(* book_appointment.                                                       *)
(***************************************************************************)
AppointmentRequest(type, date_s, start_time) ==
    [appointment_type |-> type, appointment_date |-> date_s, start_time |-> start_time]

\* the requests the callers make: every category on the Monday, two of them
\* under its other spelling, and one today; every category on the dates that
\* are refused; and start times that are no slot
Requests ==
    {AppointmentRequest(t, Mon, s) : t \in Types, s \in {T0900, T0915}}
    \cup {AppointmentRequest(t, MonShort, s) :
             t \in {"general_consultation", "follow_up"}, s \in {T0900, T0915}}
    \cup {AppointmentRequest("general_consultation", Fri, s) : s \in {T0900, T0915}}
    \cup {AppointmentRequest(t, d, T0900) : t \in Types, d \in {Wed, Sat, NoDate}}
    \cup {AppointmentRequest("general_consultation", Mon, s) : s \in {T900, NoTime}}

\* the availability queries the callers make
Queries == DateStrings \X Types

AppointmentResponse(booking_id, status, confirmation_code, request, end_time, reason) ==
    [op |-> "book_appointment", booking_id |-> booking_id, status |-> status,
     confirmation_code |-> confirmation_code,
     appointment_type |-> request.appointment_type, date |-> request.appointment_date,
     start_time |-> request.start_time, end_time |-> end_time, reason |-> reason]

\* the responses with booking_id="" and status="failed"
failed(request, end_time, reason) == AppointmentResponse(<<>>, "failed", <<>>, request, end_time, reason)

\* an end one stride after the start, where the code's is `duration` minutes after
end_time_of_stride(start_time, duration) == strftime_HM(strptime_time(start_time) + slot_step)

\* end_dt.strftime("%H:%M") of start_dt + timedelta(minutes=duration)
end_time_of(start_time, duration) == strftime_HM(strptime_time(start_time) + duration)

\* any(slot.start_time == request.start_time and slot.available for slot in ...)
is_slot_available(availability, start_time) ==
    \E i \in 1..Len(availability.available_slots) :
        /\ availability.available_slots[i].start_time = start_time
        /\ availability.available_slots[i].available

\* the part of book_appointment a call is in: lines 182-220 validate the request,
\* lines 222-248 compute the availability and look for the slot, lines 250-276
\* create the record and write it
Validating == <<"Validating">>
CheckingAvailability == <<"Validating", "CheckingAvailability">>
Committing == <<"Validating", "CheckingAvailability", "Committing">>

\* the availability is computed and the slot looked for before the date is
\* tested, where the code tests the date first
book_outcome_slot_first(f, n, request) ==
    IF ~ date_parses(request.appointment_date)
    THEN [path |-> Validating,
          response |-> failed(request, <<>>, "Booking failed: time data does not match format '%Y-%m-%d'")]
    ELSE IF ~ time_parses(request.start_time)
    THEN [path |-> Validating,
          response |-> failed(request, <<>>, "Booking failed: time data does not match format '%H:%M'")]
    ELSE LET req_date == strptime_date(request.appointment_date)
             duration == APPOINTMENT_TYPES(request.appointment_type).duration
             end_time == end_time_of(request.start_time, duration)
             availability == get_availability(f, n, request.appointment_date,
                                              request.appointment_type)
         IN  IF ~ is_slot_available(availability, request.start_time)
             THEN [path |-> CheckingAvailability,
                   response |-> failed(request, end_time, "Time slot is not available")]
             ELSE IF is_past(req_date, n)
             THEN [path |-> CheckingAvailability,
                   response |-> failed(request, <<>>, "Cannot book appointments in the past")]
             ELSE IF is_weekend(req_date)
             THEN [path |-> CheckingAvailability,
                   response |-> failed(request, <<>>, "Clinic is closed on weekends")]
             ELSE [path |-> Committing, response |-> NoResp]

\* lines 181-248 and 292-306: the parts the call goes through up to the check of
\* the slot, and the failed response it returns there (NoResp when the
\* requested slot is available)
book_outcome(f, n, request) ==
    IF ~ date_parses(request.appointment_date)
    THEN [path |-> Validating,
          response |-> failed(request, <<>>, "Booking failed: time data does not match format '%Y-%m-%d'")]
    ELSE LET req_date == strptime_date(request.appointment_date) IN
         IF is_past(req_date, n)
         THEN [path |-> Validating,
               response |-> failed(request, <<>>, "Cannot book appointments in the past")]
         ELSE IF is_weekend(req_date)
         THEN [path |-> Validating,
               response |-> failed(request, <<>>, "Clinic is closed on weekends")]
         ELSE IF ~ time_parses(request.start_time)
         THEN [path |-> Validating,
               response |-> failed(request, <<>>, "Booking failed: time data does not match format '%H:%M'")]
         ELSE LET duration == APPOINTMENT_TYPES(request.appointment_type).duration
                  end_time == end_time_of(request.start_time, duration)
                  availability == get_availability(f, n, request.appointment_date,
                                                   request.appointment_type)
              IN  IF ~ is_slot_available(availability, request.start_time)
                  THEN [path |-> CheckingAvailability,
                        response |-> failed(request, end_time, "Time slot is not available")]
                  ELSE [path |-> Committing, response |-> NoResp]

\* the failed response of book_outcome
book_rejection(f, n, request) == book_outcome(f, n, request).response

\* lines 250-271: the appointment record
new_appointment(request, n, uuid_id, uuid_code) ==
    LET duration == APPOINTMENT_TYPES(request.appointment_type).duration IN
    [booking_id |-> <<n.date, uuid_id>>,
     confirmation_code |-> <<uuid_code>>,
     status |-> "confirmed",
     appointment_type |-> request.appointment_type,
     date |-> request.appointment_date,
     start_time |-> request.start_time,
     end_time |-> end_time_of(request.start_time, duration),
     duration_minutes |-> duration]

\* lines 278-290: the confirmed response
confirmed(request, appointment) ==
    AppointmentResponse(appointment.booking_id, "confirmed", appointment.confirmation_code,
                        request, appointment.end_time, "reason for visit")

(***************************************************************************)
(* cancel_appointment.                                                     *)
(***************************************************************************)
\* the first appointment of the list with the booking id, 0 if there is none
first_match(appointments, booking_id) ==
    LET hits == {i \in 1..Len(appointments) : appointments[i].booking_id = booking_id}
    IN  IF hits = {} THEN 0 ELSE CHOOSE i \in hits : \A j \in hits : i <= j

CancelResponse(booking_id, result) ==
    [op |-> "cancel_appointment", booking_id |-> booking_id, result |-> result]

(***************************************************************************)
(* The book_appointment tool (src/agent_tools.py) and PatientInfo           *)
(* (src/schemas.py).  The values of patient_email, patient_phone,          *)
(* appointment_date and start_time are sequences of characters, "" is <<>>. *)
(***************************************************************************)
\* str.isdigit of one character
isdigit(c) == c \in {"0", "1", "2", "3", "4", "5", "6", "7", "8", "9"}

\* ''.join(filter(str.isdigit, v))
cleaned(v) == SelectSeq(v, isdigit)

\* a count of the characters, where the code counts the digits
phone_valid_by_length(v) == Len(v) >= 10

\* validate_phone does not raise
phone_valid(v) == Len(cleaned(v)) >= 10

\* EmailStr accepts v: one "@", something before it, and after it a domain of
\* two or more non-empty labels separated by "."
email_valid(v) ==
    LET ats == {i \in 1..Len(v) : v[i] = "@"} IN
    /\ Cardinality(ats) = 1
    /\ LET at == CHOOSE i \in ats : TRUE
           domain == SubSeq(v, at + 1, Len(v))
           dots == {i \in 1..Len(domain) : domain[i] = "."}
       IN  /\ at > 1
           /\ dots # {}
           /\ \A i \in dots : i > 1 /\ i < Len(domain) /\ (i + 1) \notin dots

\* bool(x) of a str argument that is modelled as a string
truthy(x) == x # ""

\* bool(x) of a str argument that is modelled by its characters
truthy_chars(x) == x # <<>>

\* all([patient_name, patient_email, patient_phone, appointment_type,
\*      appointment_date, start_time, reason])
all_given(args) ==
    /\ truthy(args.patient_name) /\ truthy_chars(args.patient_email)
    /\ truthy_chars(args.patient_phone) /\ truthy(args.appointment_type)
    /\ truthy_chars(args.appointment_date) /\ truthy_chars(args.start_time)
    /\ truthy(args.reason)

\* PatientInfo(name=..., email=..., phone=...) does not raise
PatientInfo_valid(args) == email_valid(args.patient_email) /\ phone_valid(args.patient_phone)

\* "ann@mail.org", "not-an-email", "ann@mail" (a domain of one label)
EmailOk == <<"a", "n", "n", "@", "m", "a", "i", "l", ".", "o", "r", "g">>
NotAnEmail == <<"n", "o", "t", "-", "a", "n", "-", "e", "m", "a", "i", "l">>
OneLabelEmail == <<"a", "n", "n", "@", "m", "a", "i", "l">>

\* "555-123-4567" (ten digits), "12345", "555-123-456" (eleven characters,
\* nine digits)
PhoneOk == <<"5", "5", "5", "-", "1", "2", "3", "-", "4", "5", "6", "7">>
PhoneFive == <<"1", "2", "3", "4", "5">>
PhoneNine == <<"5", "5", "5", "-", "1", "2", "3", "-", "4", "5", "6">>

\* an appointment type that is none of the four
UnknownType == "dental_cleaning"

\* the arguments of a well-formed tool call: a general consultation on the
\* Monday at 09:00
GoodArgs ==
    [tool |-> "book_appointment", patient_name |-> "Ann Lee", patient_email |-> EmailOk,
     patient_phone |-> PhoneOk, appointment_type |-> "general_consultation",
     appointment_date |-> Mon, start_time |-> T0900, reason |-> "checkup"]

\* the tool calls the callers make: the well-formed one, and the ones that
\* differ from it in one argument
ToolCalls ==
    {GoodArgs}
    \cup {[GoodArgs EXCEPT !.patient_name = ""], [GoodArgs EXCEPT !.reason = ""],
          [GoodArgs EXCEPT !.appointment_type = ""],
          [GoodArgs EXCEPT !.appointment_type = UnknownType]}
    \cup {[GoodArgs EXCEPT !.patient_email = v] : v \in {<<>>, NotAnEmail, OneLabelEmail}}
    \cup {[GoodArgs EXCEPT !.patient_phone = v] : v \in {<<>>, PhoneFive, PhoneNine}}
    \cup {[GoodArgs EXCEPT !.appointment_date = <<>>], [GoodArgs EXCEPT !.start_time = <<>>]}

\* the string the tool returns without calling calendly_api
ToolError(text) == [op |-> "book_appointment_tool", text |-> text]

\* strftime("%I:%M %p").lstrip("0") of a time of day in minutes: the 12-hour
\* clock without a leading zero, and AM or PM
strftime_IMp(mins) ==
    LET hour == mins \div 60
        hour12 == IF hour % 12 = 0 THEN 12 ELSE hour % 12
    IN  << IF hour12 >= 10 THEN two_digits(hour12) ELSE <<hour12>>,
           two_digits(mins % 60),
           IF hour < 12 THEN "AM" ELSE "PM" >>

\* the string CheckAvailabilityTool._run returns: its leading sentence, and for
\* a list of slots the times it prints and the total
CheckResult(text, date_s, type, slots_text, total) ==
    [op |-> "check_availability", text |-> text, date |-> date_s,
     appointment_type |-> type, slots_text |-> slots_text, total_slots |-> total]

\* response.available_slots[:10], each start time formatted
first_ten(available_slots) ==
    [i \in 1..(IF Len(available_slots) < 10 THEN Len(available_slots) ELSE 10) |->
        strftime_IMp(strptime_time(available_slots[i].start_time))]

\* the checks of CheckAvailabilityTool._run have passed: the type is one of
\* valid_types and the date matches %Y-%m-%d
check_calls_api(date_s, type) == type \in Types /\ date_parses(date_s)

\* CheckAvailabilityTool._run(date, appointment_type) over the file f at the
\* clock reading n
check_availability(f, n, date_s, type) ==
    IF type \notin Types
    THEN CheckResult("Error: Invalid appointment type", date_s, type, <<>>, 0)
    ELSE IF ~ date_parses(date_s)
    THEN CheckResult("Error: Date must be in YYYY-MM-DD format", date_s, type, <<>>, 0)
    ELSE LET response == get_availability(f, n, date_s, type)
             date_obj == strptime_date(date_s)
         IN  IF response.total_slots = 0
             THEN IF weekday(date_obj) >= 5
                  THEN CheckResult("The clinic is closed on weekends", date_s, type, <<>>, 0)
                  ELSE IF date_before(date_obj, n.date)
                  THEN CheckResult("This date is in the past", date_s, type, <<>>, 0)
                  ELSE CheckResult("The date is fully booked", date_s, type, <<>>, 0)
             ELSE CheckResult("Available slots", date_s, type,
                              first_ten(response.available_slots), response.total_slots)

(***************************************************************************)
(* The calls, step by step.  A call's steps are the places where it reads  *)
(* or writes the file.  When it has returned, resp holds its value until   *)
(* the caller takes it.                                                    *)
(***************************************************************************)
\* no arguments: the call was not made through a tool
NoArgs == [tool |-> "none"]

NoPre == [file |-> WrittenFile(<<>>), clock |-> 0, repeat |-> FALSE, path |-> <<>>,
          args |-> NoArgs]

\* the values uuid4() may take when n distinct ones were taken before: one of
\* those, or a new one (the values are only ever compared for equality, so the
\* k-th new value is named k)
uuid4(n) == 1..(IF n < MaxUuid THEN n + 1 ELSE MaxUuid)

max(a, b) == IF a >= b THEN a ELSE b

\* the booking ids a caller may ask to cancel
BookingIds == {<<ClockSchedule[c].date, u>> : c \in 1..Len(ClockSchedule), u \in 1..MaxUuid}

Init ==
    /\ file = WrittenFile(<<>>)
    /\ clock = 1
    /\ pc = [p \in Procs |-> "idle"]
    /\ call = [p \in Procs |-> NoCall]
    /\ resp = [p \in Procs |-> NoResp]
    /\ uuids = [id |-> 0, code |-> 0]
    /\ commits = 0
    /\ pre = [p \in Procs |-> NoPre]
    /\ granted = {}
    /\ cancelled = {}

\* datetime.now() moves on
Tick ==
    /\ clock < Len(ClockSchedule) - 1
    /\ clock' = clock + 1
    /\ UNCHANGED <<file, pc, call, resp, uuids, commits, pre, granted, cancelled>>

\* datetime.now() moves on to the evening
TickToEvening ==
    /\ clock = Len(ClockSchedule) - 1
    /\ clock' = clock + 1
    /\ UNCHANGED <<file, pc, call, resp, uuids, commits, pre, granted, cancelled>>

\* a call of p begins, made with the tool arguments `args`, and goes through
\* the parts of `path`
BeginsWith(p, path, args) ==
    /\ pc[p] = "idle"
    /\ pre' = [pre EXCEPT ![p] = [file |-> file, clock |-> clock, repeat |-> FALSE,
                                  path |-> path, args |-> args]]

\* a call of p begins
Begins(p) == BeginsWith(p, <<>>, NoArgs)

\* a call of p returns r
Returns(p, r) ==
    /\ pc' = [pc EXCEPT ![p] = "returned"]
    /\ call' = [call EXCEPT ![p] = NoCall]
    /\ resp' = [resp EXCEPT ![p] = r]

\* the caller takes the returned value
Ack(p) ==
    /\ pc[p] \in {"returned", "crashed"}
    /\ pc' = [pc EXCEPT ![p] = "idle"]
    /\ resp' = [resp EXCEPT ![p] = NoResp]
    /\ pre' = [pre EXCEPT ![p] = NoPre]
    /\ UNCHANGED <<file, clock, call, uuids, commits, granted, cancelled>>

\* get_availability(AvailabilityRequest(date, appointment_type))
GetAvailability(p, date_s, type) ==
    /\ Begins(p)
    /\ Returns(p, get_availability(file, now, date_s, type))
    /\ UNCHANGED <<file, clock, uuids, commits, granted, cancelled>>

\* the caller makes the call that has just returned once more
GetAvailabilityAgain(p) ==
    /\ pc[p] = "returned"
    /\ resp[p].op = "get_availability"
    /\ ~ pre[p].repeat
    /\ pre' = [pre EXCEPT ![p] = [file |-> file, clock |-> clock, repeat |-> TRUE,
                                  path |-> <<>>, args |-> NoArgs]]
    /\ Returns(p, get_availability(file, now, resp[p].date, resp[p].appointment_type))
    /\ UNCHANGED <<file, clock, uuids, commits, granted, cancelled>>

\* book_appointment, lines 181-248: validate, compute availability, check the
\* slot; `args` are the tool arguments the request was made from
BookCheckFrom(p, request, args) ==
    /\ LET outcome == book_outcome(file, now, request)
           rejection == outcome.response
       IN
       /\ BeginsWith(p, outcome.path, args)
       /\ IF rejection # NoResp
          THEN /\ Returns(p, rejection)
               /\ UNCHANGED commits
          ELSE /\ commits < MaxCommits
               /\ commits' = commits + 1
               /\ pc' = [pc EXCEPT ![p] = "append"]
               /\ call' = [call EXCEPT ![p] = [op |-> "book_appointment", request |-> request]]
               /\ UNCHANGED resp
    /\ UNCHANGED <<file, clock, uuids, granted, cancelled>>

\* calendly_api.book_appointment(request), called directly
BookCheck(p, request) == BookCheckFrom(p, request, NoArgs)

\* book_appointment, lines 250-275: mint the ids, build the record, load, append
BookAppend(p, uuid_id, uuid_code) ==
    /\ pc[p] = "append"
    /\ LET appointment == new_appointment(call[p].request, now, uuid_id, uuid_code)
           appointments == Append(load_appointments(file), appointment)
       IN  call' = [call EXCEPT ![p] = [op |-> "book_appointment",
                                        request |-> call[p].request,
                                        appointment |-> appointment,
                                        appointments |-> appointments]]
    /\ uuids' = [id |-> max(uuids.id, uuid_id), code |-> max(uuids.code, uuid_code)]
    /\ pc' = [pc EXCEPT ![p] = "open"]
    /\ UNCHANGED <<file, clock, resp, commits, pre, granted, cancelled>>

\* book_appointment, lines 250-275, where _load_appointments fails to open or to
\* parse a file that is intact (lines 39-45) and returns []
BookAppendLoadFails(p, uuid_id, uuid_code) ==
    /\ pc[p] = "append"
    /\ LET appointment == new_appointment(call[p].request, now, uuid_id, uuid_code)
       IN  call' = [call EXCEPT ![p] = [op |-> "book_appointment",
                                        request |-> call[p].request,
                                        appointment |-> appointment,
                                        appointments |-> <<appointment>>]]
    /\ uuids' = [id |-> max(uuids.id, uuid_id), code |-> max(uuids.code, uuid_code)]
    /\ pc' = [pc EXCEPT ![p] = "open"]
    /\ UNCHANGED <<file, clock, resp, commits, pre, granted, cancelled>>

\* cancel_appointment, lines 318-325, up to the save
CancelLoad(p, booking_id) ==
    /\ Begins(p)
    /\ LET appointments == load_appointments(file)
           i == first_match(appointments, booking_id)
       IN  IF i = 0
           THEN /\ Returns(p, CancelResponse(booking_id, FALSE))
                /\ UNCHANGED commits
           ELSE /\ commits < MaxCommits
                /\ commits' = commits + 1
                /\ pc' = [pc EXCEPT ![p] = "open"]
                /\ call' = [call EXCEPT ![p] =
                                [op |-> "cancel_appointment", booking_id |-> booking_id,
                                 appointments |-> [appointments EXCEPT ![i].status = "cancelled"]]]
                /\ UNCHANGED resp
    /\ UNCHANGED <<file, clock, uuids, granted, cancelled>>

\* _save_appointments has returned (it swallows what it raises): the call
\* returns its success value, lines 278-290 and line 324
SaveReturns(p) ==
    /\ IF call[p].op = "book_appointment"
       THEN /\ Returns(p, confirmed(call[p].request, call[p].appointment))
            /\ granted' = granted \cup {call[p].appointment}
            /\ UNCHANGED cancelled
       ELSE /\ Returns(p, CancelResponse(call[p].booking_id, TRUE))
            /\ cancelled' = cancelled \cup {call[p].booking_id}
            /\ UNCHANGED granted
    /\ UNCHANGED <<clock, uuids, commits, pre>>

\* _save_appointments, line 50: open(path, 'w') truncates the file
SaveOpen(p) ==
    /\ pc[p] = "open"
    /\ file' = TruncatedFile
    /\ pc' = [pc EXCEPT ![p] = "dump"]
    /\ UNCHANGED <<clock, call, resp, uuids, commits, pre, granted, cancelled>>

\* _save_appointments, lines 50, 52-53: open raises, the file is untouched
SaveOpenFails(p) ==
    /\ pc[p] = "open"
    /\ UNCHANGED file
    /\ SaveReturns(p)

\* _save_appointments, line 51: json.dump writes the list and the file is closed
SaveDump(p) ==
    /\ pc[p] = "dump"
    /\ file' \in dumped_over(file, call[p].appointments)
    /\ SaveReturns(p)

\* _save_appointments, lines 51-53: the write raises (disk full), having written
\* nothing or a part
SaveDumpFails(p) ==
    /\ pc[p] = "dump"
    /\ file' \in {file, GarbageFile}
    /\ SaveReturns(p)

\* the process dies between open and json.dump, and every call in it is lost
Crash(p) ==
    /\ pc[p] = "dump"
    /\ pc' = [q \in Procs |-> IF q = p THEN "crashed" ELSE "idle"]
    /\ call' = [q \in Procs |-> NoCall]
    /\ resp' = [q \in Procs |-> NoResp]
    /\ pre' = [q \in Procs |-> IF q = p THEN pre[p] ELSE NoPre]
    /\ UNCHANGED <<file, clock, uuids, commits, granted, cancelled>>

\* BookAppointmentTool._run, lines 128-154 and 188-189: the checks of the
\* arguments, the AppointmentRequest (which raises for a type that is none of
\* the four), then calendly_api.book_appointment(request)
BookAppointmentTool(p, args) ==
    IF ~ all_given(args)
    THEN /\ BeginsWith(p, <<>>, args)
         /\ Returns(p, ToolError("Error: All fields are required to book an appointment."))
         /\ UNCHANGED <<file, clock, uuids, commits, granted, cancelled>>
    ELSE IF ~ PatientInfo_valid(args)
    THEN /\ BeginsWith(p, <<>>, args)
         /\ Returns(p, ToolError("Error: Invalid patient information"))
         /\ UNCHANGED <<file, clock, uuids, commits, granted, cancelled>>
    ELSE IF args.appointment_type \notin Types
    THEN /\ BeginsWith(p, <<>>, args)
         /\ Returns(p, ToolError("Error booking appointment"))
         /\ UNCHANGED <<file, clock, uuids, commits, granted, cancelled>>
    ELSE BookCheckFrom(p, AppointmentRequest(args.appointment_type, args.appointment_date,
                                             args.start_time), args)

\* CheckAvailabilityTool._run(date, appointment_type), lines 38-85
CheckAvailabilityTool(p, date_s, type) ==
    /\ BeginsWith(p, IF check_calls_api(date_s, type) THEN <<"get_availability">> ELSE <<>>,
                  [tool |-> "check_availability", date |-> date_s, appointment_type |-> type])
    /\ Returns(p, check_availability(file, now, date_s, type))
    /\ UNCHANGED <<file, clock, uuids, commits, granted, cancelled>>

\* the steps of caller p, its requests and queries drawn from the given sets
Step(p, requests, queries) ==
    \/ \E q \in queries : GetAvailability(p, q[1], q[2])
    \/ GetAvailabilityAgain(p)
    \/ \E request \in requests : BookCheck(p, request)
    \/ \E uuid_id \in uuid4(uuids.id), uuid_code \in uuid4(uuids.code) :
          BookAppend(p, uuid_id, uuid_code)
    \/ \E booking_id \in BookingIds : CancelLoad(p, booking_id)
    \/ SaveOpen(p)
    \/ SaveOpenFails(p)
    \/ SaveDump(p)
    \/ SaveDumpFails(p)
    \/ Crash(p)
    \/ Ack(p)

\* the requests and the queries of the concurrent callers
RaceRequests ==
    {AppointmentRequest("general_consultation", Mon, T0900),
     AppointmentRequest("follow_up", Mon, T0915)}

RaceQueries == {<<Mon, "general_consultation">>}

\* the callers run concurrently
Next == Tick \/ \E p \in Procs : Step(p, RaceRequests, RaceQueries)

Spec == Init /\ [][Next]_vars

\* one caller: the calls run one at a time, each to its return
NextSeq == Tick \/ Step("s1", Requests, Queries)

SpecSeq == Init /\ [][NextSeq]_vars

\* the bookings of a caller that mostly asks for availability: one on the
\* Monday, one under the Monday's other spelling, one today
QueryRequests ==
    {AppointmentRequest("general_consultation", Mon, T0900),
     AppointmentRequest("follow_up", MonShort, T0900),
     AppointmentRequest("general_consultation", Fri, T0900)}

\* one caller, every availability query, the few bookings above
NextQuery == Tick \/ Step("s1", QueryRequests, Queries)

SpecQuery == Init /\ [][NextQuery]_vars

\* "2026-10-31", a Saturday before today
PastSat == << <<2,0,2,6>>, <<1,0>>, <<3,1>> >>

\* "16:00" and "16:15": an hour that ends at 17:00, and one that ends after
T1600 == << <<1,6>>, <<0,0>> >>
T1615 == << <<1,6>>, <<1,5>> >>

\* the bookings of a caller that mostly books: three categories on the Monday at
\* 09:00, the last hour of the day and the one after it, and the dates that
\* are refused
BookRequests ==
    {AppointmentRequest(t, Mon, T0900) : t \in Types \ {"specialist_consultation"}}
    \cup {AppointmentRequest("specialist_consultation", Mon, s) : s \in {T1600, T1615}}
    \cup {AppointmentRequest("general_consultation", d, T0900) : d \in {Wed, Sat, PastSat}}

BookQueries == {<<Mon, "specialist_consultation">>, <<Sat, "follow_up">>}

\* one caller that books through the tool and directly
NextBook ==
    \/ Tick
    \/ Step("s1", BookRequests, BookQueries)
    \/ \E args \in ToolCalls : BookAppointmentTool("s1", args)

SpecBook == Init /\ [][NextBook]_vars

\* the bookings of a caller that mostly checks availability through the tool:
\* a quarter of an hour today, and requests whose date or start time is not
\* written YYYY-MM-DD or HH:MM
CheckRequests ==
    {AppointmentRequest("follow_up", Fri, T0915),
     AppointmentRequest("general_consultation", MonShort, T0900),
     AppointmentRequest("general_consultation", Mon, T900),
     AppointmentRequest("general_consultation", NoDate, T0900),
     AppointmentRequest("general_consultation", Mon, NoTime)}

\* today's availability, asked of the API directly, for every category
CheckQueries == {<<Fri, t>> : t \in Types}

\* the dates and types the tool is asked about
ToolQueries == (DateStrings \cup {PastSat}) \X (Types \cup {UnknownType})

\* one caller that checks availability through the tool, from the morning to
\* the evening
NextCheck ==
    \/ Tick
    \/ TickToEvening
    \/ Step("s1", CheckRequests, CheckQueries)
    \/ \E q \in ToolQueries : CheckAvailabilityTool("s1", q[1], q[2])

SpecCheck == Init /\ [][NextCheck]_vars

\* the steps of caller p when every open and every write of the file succeeds
\* and the process lives
StepNoFault(p, requests, queries) ==
    \/ \E q \in queries : GetAvailability(p, q[1], q[2])
    \/ GetAvailabilityAgain(p)
    \/ \E request \in requests : BookCheck(p, request)
    \/ \E uuid_id \in uuid4(uuids.id), uuid_code \in uuid4(uuids.code) :
          BookAppend(p, uuid_id, uuid_code)
    \/ \E booking_id \in BookingIds : CancelLoad(p, booking_id)
    \/ SaveOpen(p)
    \/ SaveDump(p)
    \/ Ack(p)

\* the callers run concurrently and nothing fails
NextRace == Tick \/ \E p \in Procs : StepNoFault(p, RaceRequests, RaceQueries)

SpecRace == Init /\ [][NextRace]_vars

\* one caller whose writes succeed and whose bookings may fail to read the file
NextLoad ==
    \/ Tick
    \/ StepNoFault("s1", QueryRequests, RaceQueries)
    \/ \E uuid_id \in uuid4(uuids.id), uuid_code \in uuid4(uuids.code) :
          BookAppendLoadFails("s1", uuid_id, uuid_code)

SpecLoad == Init /\ [][NextLoad]_vars

(***************************************************************************)
(* What the claims speak of.                                               *)
(***************************************************************************)
\* the records that can be read from the store
Stored == load_appointments(file)

\* the calendar date a date string names
DayOf(date_s) == toordinal(strptime_date(date_s))

\* two date strings name the same calendar date
SameDay(d1, d2) == date_parses(d1) /\ date_parses(d2) /\ DayOf(d1) = DayOf(d2)

\* the half-open intervals [s1, e1) and [s2, e2), in minutes, intersect
Intersect(s1, e1, s2, e2) == s1 < e2 /\ s2 < e1

\* two records or slots overlap in time
Overlapping(a, b) ==
    Intersect(strptime_time(a.start_time), strptime_time(a.end_time),
              strptime_time(b.start_time), strptime_time(b.end_time))

\* caller p holds the value a call of the operation has returned
Returned(p, op) == pc[p] = "returned" /\ resp[p].op = op

\* the reading of datetime.now() when p's call began
CalledAt(p) == ClockSchedule[pre[p].clock]

Slots(p) == resp[p].available_slots

\* C1: over calls that run one at a time, no two confirmed records on the same
\* calendar date have overlapping intervals [start_time, end_time).
C1_NoDoubleBooking ==
    \A i, j \in 1..Len(Stored) :
        ( /\ i < j
          /\ Stored[i].status = "confirmed" /\ Stored[j].status = "confirmed"
          /\ SameDay(Stored[i].date, Stored[j].date) )
        => ~ Overlapping(Stored[i], Stored[j])

\* C2: with concurrent callers the store never holds two overlapping confirmed
\* records for one and the same date string: read, validate and append of a
\* booking run as one critical section.
C2_BookingIsSerialized ==
    \A i, j \in 1..Len(Stored) :
        ( /\ i < j
          /\ Stored[i].status = "confirmed" /\ Stored[j].status = "confirmed"
          /\ Stored[i].date = Stored[j].date )
        => ~ Overlapping(Stored[i], Stored[j])

\* C3: a booking that has returned status confirmed has its record in the store
\* (a failed write is returned as status failed).
C3_ConfirmedIsStored ==
    \A p \in Procs :
        (Returned(p, "book_appointment") /\ resp[p].status = "confirmed")
        => \E i \in 1..Len(Stored) :
              /\ Stored[i].booking_id = resp[p].booking_id
              /\ Stored[i].date = resp[p].date
              /\ Stored[i].start_time = resp[p].start_time

\* C4: when the process has died during the write of a call, every record that
\* was stored before the call can still be read from the store.
C4_CrashKeepsRecords ==
    \A p \in Procs :
        pc[p] = "crashed"
        => \A i \in 1..Len(load_appointments(pre[p].file)) :
              \E j \in 1..Len(Stored) :
                  Stored[j].booking_id = load_appointments(pre[p].file)[i].booking_id

\* the store held, when p's call began, a confirmed booking of the requested
\* category at the requested start time of the requested calendar date
AlreadyBooked(p) ==
    LET before == load_appointments(pre[p].file) IN
    \E i \in 1..Len(before) :
        /\ before[i].status = "confirmed"
        /\ before[i].appointment_type = resp[p].appointment_type
        /\ SameDay(before[i].date, resp[p].date)
        /\ time_parses(resp[p].start_time)
        /\ strptime_time(before[i].start_time) = strptime_time(resp[p].start_time)

\* C5: booking a (date, start_time, category) that already has a confirmed
\* booking returns failed with the reason "Time slot is not available" and
\* leaves the number of records as it was.
C5_DoubleBookingRejected ==
    \A p \in Procs :
        (Returned(p, "book_appointment") /\ AlreadyBooked(p))
        => /\ resp[p].status = "failed"
           /\ resp[p].reason = "Time slot is not available"
           /\ Len(Stored) = Len(load_appointments(pre[p].file))

\* the bookings returned confirmed for the calendar date of p's query and not
\* cancelled since
Held(p) ==
    {g \in granted : SameDay(g.date, resp[p].date) /\ g.booking_id \notin cancelled}

\* the slot of p's query that starts where booking g ends
SlotAfter(p, g) ==
    [start_time |-> g.end_time,
     end_time |-> strftime_HM(strptime_time(g.end_time)
                              + APPOINTMENT_TYPES(resp[p].appointment_type).duration)]

\* C6: a get_availability for the date of a booking that was returned confirmed
\* and is not cancelled lists no slot that overlaps the booking's [s, e); the
\* slot that starts at e is listed unless another such booking overlaps it or
\* its start has passed.
C6_BookedSlotsNotOffered ==
    \A p \in Procs :
        Returned(p, "get_availability")
        => \A g \in Held(p) :
              /\ \A i \in 1..Len(Slots(p)) : ~ Overlapping(Slots(p)[i], g)
              /\ ( /\ strptime_time(SlotAfter(p, g).end_time) <= business_end
                   /\ strptime_time(SlotAfter(p, g).end_time) > strptime_time(g.end_time)
                   /\ \A h \in Held(p) : ~ Overlapping(SlotAfter(p, g), h)
                   /\ DayOf(resp[p].date) > toordinal(CalledAt(p).date) )
                 => \E i \in 1..Len(Slots(p)) : Slots(p)[i].start_time = g.end_time

\* p's query was for a date string that parses
QueryOf(p) == Returned(p, "get_availability") /\ date_parses(resp[p].date)

NoSlots(p) == resp[p].available_slots = <<>> /\ resp[p].total_slots = 0

\* C7: for a Saturday or a Sunday get_availability returns no slot and
\* total_slots = 0, for every category and whatever the store holds.
C7_WeekendHasNoSlots ==
    \A p \in Procs :
        (QueryOf(p) /\ weekday(strptime_date(resp[p].date)) \in {5, 6}) => NoSlots(p)

\* a weekend query has returned while the store holds a confirmed booking
C7_Witness ==
    \E p \in Procs :
        /\ QueryOf(p) /\ weekday(strptime_date(resp[p].date)) \in {5, 6}
        /\ NoSlots(p)
        /\ \E i \in 1..Len(Stored) : Stored[i].status = "confirmed"

\* C8: for a date strictly before the current date get_availability returns no
\* slot and total_slots = 0, for every category.
C8_PastDateHasNoSlots ==
    \A p \in Procs :
        (QueryOf(p) /\ DayOf(resp[p].date) < toordinal(CalledAt(p).date)) => NoSlots(p)

\* a query for a past weekday has returned
C8_Witness ==
    \E p \in Procs :
        /\ QueryOf(p) /\ DayOf(resp[p].date) < toordinal(CalledAt(p).date)
        /\ weekday(strptime_date(resp[p].date)) < 5
        /\ NoSlots(p)
        /\ resp[p].appointment_type = "physical_exam"

\* the step is a get_availability call of p right after one with the same date
\* and category has returned to p
RepeatedQuery(p) ==
    /\ Returned(p, "get_availability")
    /\ pc'[p] = "returned" /\ resp'[p].op = "get_availability"
    /\ pre'[p].repeat /\ ~ pre[p].repeat
    /\ resp'[p].date = resp[p].date
    /\ resp'[p].appointment_type = resp[p].appointment_type

SameAnswer(p) ==
    /\ resp'[p].available_slots = resp[p].available_slots
    /\ resp'[p].total_slots = resp[p].total_slots

FixedDuration(t) ==
    CASE t = "general_consultation" -> 30
      [] t = "follow_up" -> 15
      [] t = "physical_exam" -> 45
      [] t = "specialist_consultation" -> 60

\* C10: every slot get_availability returns is as long as the category's fixed
\* duration: 30, 15, 45, 60 minutes.
C10_SlotsHaveFixedDuration ==
    \A p \in Procs :
        Returned(p, "get_availability")
        => \A i \in 1..Len(Slots(p)) :
              strptime_time(Slots(p)[i].end_time) - strptime_time(Slots(p)[i].start_time)
                  = FixedDuration(resp[p].appointment_type)

\* a query has returned slots for a date with a confirmed booking
C10_Witness ==
    \E p \in Procs :
        /\ QueryOf(p) /\ resp[p].total_slots > 0
        /\ resp[p].appointment_type = "specialist_consultation"
        /\ \E i \in 1..Len(Stored) :
              Stored[i].status = "confirmed" /\ Stored[i].date = resp[p].date

\* C11: every record of the store ends its category's fixed duration after it
\* starts, and records that duration as duration_minutes.
C11_RecordsHaveFixedDuration ==
    \A i \in 1..Len(Stored) :
        /\ strptime_time(Stored[i].end_time) - strptime_time(Stored[i].start_time)
              = FixedDuration(Stored[i].appointment_type)
        /\ Stored[i].duration_minutes = FixedDuration(Stored[i].appointment_type)

\* the store holds records of two categories, half an hour and an hour long
C11_Witness ==
    \E i, j \in 1..Len(Stored) :
        /\ Stored[i].appointment_type = "general_consultation"
        /\ Stored[j].appointment_type = "specialist_consultation"
        /\ Stored[i].duration_minutes = 30 /\ Stored[j].duration_minutes = 60

\* x starts at 09:00 or later, ends at 17:00 or earlier, and ends after it starts
InBusinessHours(x) ==
    /\ strptime_time(x.start_time) >= 9 * 60
    /\ strptime_time(x.end_time) <= 17 * 60
    /\ strptime_time(x.start_time) < strptime_time(x.end_time)

\* the date string names a Monday, Tuesday, ..., or Friday
OnWeekday(date_s) == date_parses(date_s) /\ weekday(strptime_date(date_s)) \in 0..4

\* C12: every slot get_availability returns and every record book_appointment
\* has stored lies on a Monday-to-Friday date between 09:00 and 17:00.
C12_WithinBusinessHours ==
    /\ \A p \in Procs :
          Returned(p, "get_availability")
          => \A i \in 1..Len(Slots(p)) :
                OnWeekday(resp[p].date) /\ InBusinessHours(Slots(p)[i])
    /\ \A i \in 1..Len(Stored) :
          OnWeekday(Stored[i].date) /\ InBusinessHours(Stored[i])

\* the store holds a confirmed record that ends at 17:00, and a query has
\* returned slots
C12_Witness ==
    /\ \E i \in 1..Len(Stored) :
          Stored[i].status = "confirmed" /\ strptime_time(Stored[i].end_time) = 17 * 60
    /\ \E p \in Procs : Returned(p, "get_availability") /\ Len(Slots(p)) > 0

\* the number of slots of a day without bookings
ExpectedSlots(t) ==
    CASE t = "general_consultation" -> 31
      [] t = "follow_up" -> 32
      [] t = "physical_exam" -> 30
      [] t = "specialist_consultation" -> 29

\* p's query was for a weekday after the day of the call, and the store then
\* held no confirmed record on that calendar date
FreeFutureWeekday(p) ==
    /\ QueryOf(p)
    /\ weekday(strptime_date(resp[p].date)) \in 0..4
    /\ DayOf(resp[p].date) > toordinal(CalledAt(p).date)
    /\ \A i \in 1..Len(load_appointments(pre[p].file)) :
          ~ ( /\ load_appointments(pre[p].file)[i].status = "confirmed"
              /\ SameDay(load_appointments(pre[p].file)[i].date, resp[p].date) )

\* C13: for a future weekday without a confirmed booking get_availability
\* returns exactly the slots that start at 09:00 + 15k minutes, k = 0 ..
\* (480 - d)/15, written HH:MM: 31, 32, 30, 29 slots for the four categories.
C13_FreeDayHasEverySlot ==
    \A p \in Procs :
        FreeFutureWeekday(p)
        => /\ ExpectedSlots(resp[p].appointment_type)
                = (480 - FixedDuration(resp[p].appointment_type)) \div 15 + 1
           /\ Len(Slots(p)) = ExpectedSlots(resp[p].appointment_type)
           /\ resp[p].total_slots = ExpectedSlots(resp[p].appointment_type)
           /\ \A k \in 1..Len(Slots(p)) :
                 /\ Len(Slots(p)[k].start_time[1]) = 2
                 /\ Len(Slots(p)[k].start_time[2]) = 2
                 /\ strptime_time(Slots(p)[k].start_time) = 9 * 60 + 15 * (k - 1)

\* such a query has returned while the store held a confirmed record of
\* another day
C13_Witness ==
    \E p \in Procs :
        /\ FreeFutureWeekday(p)
        /\ resp[p].appointment_type = "general_consultation"
        /\ resp[p].total_slots = 31
        /\ \E i \in 1..Len(load_appointments(pre[p].file)) :
              load_appointments(pre[p].file)[i].status = "confirmed"

\* C14: in every get_availability result each slot starts a positive multiple
\* of 15 minutes after the slot before it (so the start times increase
\* strictly and any two of them differ by a multiple of 15 that is at least
\* 15), and total_slots is the length of available_slots.
C14_SlotsInOrder ==
    \A p \in Procs :
        Returned(p, "get_availability")
        => /\ resp[p].total_slots = Len(Slots(p))
           /\ \A i \in 1..(Len(Slots(p)) - 1) :
                 LET gap == strptime_time(Slots(p)[i + 1].start_time)
                              - strptime_time(Slots(p)[i].start_time)
                 IN  gap >= 15 /\ gap % 15 = 0

\* a query has returned a list whose first slots a booking has taken away
C14_Witness ==
    \E p \in Procs :
        /\ Returned(p, "get_availability")
        /\ Len(Slots(p)) > 1
        /\ strptime_time(Slots(p)[1].start_time) > 9 * 60
        /\ DayOf(resp[p].date) > toordinal(CalledAt(p).date)

\* the arguments of a tool call with an empty required field, an email that is
\* no address, or a phone number of fewer than ten digits
BadArgs(args) ==
    /\ args.tool = "book_appointment"
    /\ \/ args.patient_name = "" \/ args.reason = "" \/ args.appointment_type = ""
       \/ args.patient_email = <<>> \/ args.patient_phone = <<>>
       \/ args.appointment_date = <<>> \/ args.start_time = <<>>
       \/ args.patient_email \in {NotAnEmail, OneLabelEmail}
       \/ args.patient_phone \in {PhoneFive, PhoneNine}

\* C15: a call of the book_appointment tool with an empty required field, an
\* invalid email or a phone number of fewer than 10 digits returns the tool's
\* error without entering book_appointment: no availability is computed and the
\* store is as it was.
C15_BadArgsStopAtTool ==
    \A p \in Procs :
        (pc[p] # "idle" /\ BadArgs(pre[p].args))
        => /\ Returned(p, "book_appointment_tool")
           /\ pre[p].path = <<>>
           /\ file = pre[p].file

\* the tool has refused a phone number of eleven characters and nine digits
\* while the store held a record
C15_Witness ==
    \E p \in Procs :
        /\ Returned(p, "book_appointment_tool")
        /\ pre[p].args.tool = "book_appointment"
        /\ pre[p].args.patient_phone = PhoneNine
        /\ Len(Stored) > 0

\* p's book_appointment call has returned for a date string that parses
BookingOf(p) == Returned(p, "book_appointment") /\ date_parses(resp[p].date)

\* the call was refused with the reason before it computed the availability,
\* and the store is as it was
RefusedEarly(p, reason) ==
    /\ resp[p].status = "failed"
    /\ resp[p].reason = reason
    /\ pre[p].path = <<"Validating">>
    /\ file = pre[p].file

\* C16, as stated: book_appointment for a Saturday or Sunday is refused as a
\* weekend, and for a date before today as a past date; the store is unchanged
\* and no availability is computed.
C16_AsStated ==
    \A p \in Procs :
        BookingOf(p)
        => /\ weekday(strptime_date(resp[p].date)) \in {5, 6}
                => RefusedEarly(p, "Clinic is closed on weekends")
           /\ DayOf(resp[p].date) < toordinal(CalledAt(p).date)
                => RefusedEarly(p, "Cannot book appointments in the past")

\* C16, amended: ... for a Saturday or Sunday that is not before today ...
C16_WeekendOrPastRefused ==
    \A p \in Procs :
        BookingOf(p)
        => /\ ( /\ weekday(strptime_date(resp[p].date)) \in {5, 6}
                 /\ DayOf(resp[p].date) >= toordinal(CalledAt(p).date) )
                => RefusedEarly(p, "Clinic is closed on weekends")
           /\ DayOf(resp[p].date) < toordinal(CalledAt(p).date)
                => RefusedEarly(p, "Cannot book appointments in the past")

\* a booking for a coming Saturday has been refused while the store held a
\* record
C16_Witness ==
    \E p \in Procs :
        /\ BookingOf(p)
        /\ weekday(strptime_date(resp[p].date)) = 5
        /\ DayOf(resp[p].date) > toordinal(CalledAt(p).date)
        /\ RefusedEarly(p, "Clinic is closed on weekends")
        /\ Len(Stored) > 0

\* C17: no two records of the store share a booking_id, and no two share a
\* confirmation_code, whatever values uuid4() takes.
C17_IdsAreUnique ==
    \A i, j \in 1..Len(Stored) :
        i < j => /\ Stored[i].booking_id # Stored[j].booking_id
                 /\ Stored[i].confirmation_code # Stored[j].confirmation_code

\* the records the store held when p's call began
Before(p) == load_appointments(pre[p].file)

\* C18: cancel_appointment(id) returns false and leaves the store as it was
\* when no record has the id; otherwise it returns true, the record with the id
\* is cancelled afterwards and every other record and field is as it was (so
\* cancelling a cancelled record changes nothing).
C18_CancelFlipsOneStatus ==
    \A p \in Procs :
        Returned(p, "cancel_appointment")
        => IF \A i \in 1..Len(Before(p)) : Before(p)[i].booking_id # resp[p].booking_id
           THEN resp[p].result = FALSE /\ file = pre[p].file
           ELSE /\ resp[p].result = TRUE
                /\ Len(Stored) = Len(Before(p))
                /\ \A i \in 1..Len(Before(p)) :
                      Stored[i] = IF Before(p)[i].booking_id = resp[p].booking_id
                                  THEN [Before(p)[i] EXCEPT !.status = "cancelled"]
                                  ELSE Before(p)[i]

\* C19: when a call has returned, every record the store held before the call
\* is still there, in its place, with the same fields; only its status may
\* differ, and only as confirmed before and cancelled after.
C19_RecordsAreKept ==
    \A p \in Procs :
        pc[p] = "returned"
        => /\ Len(Stored) >= Len(Before(p))
           /\ \A i \in 1..Len(Before(p)) :
                 /\ [Stored[i] EXCEPT !.status = Before(p)[i].status] = Before(p)[i]
                 /\ Stored[i].status # Before(p)[i].status
                       => Before(p)[i].status = "confirmed" /\ Stored[i].status = "cancelled"

\* C20: a book_appointment call ends Confirmed or Rejected: it goes on to create
\* the record only after the slot was found available; Confirmed, its record is
\* in the store; Rejected, it has a reason, never got to create a record and
\* left the store as it was.
C20_BookingStateMachine ==
    \A p \in Procs :
        /\ pc[p] \in {"append", "open", "dump"} /\ call[p].op = "book_appointment"
              => pre[p].path = <<"Validating", "CheckingAvailability", "Committing">>
        /\ Returned(p, "book_appointment")
              => \/ /\ resp[p].status = "confirmed"
                    /\ pre[p].path = <<"Validating", "CheckingAvailability", "Committing">>
                    /\ \E i \in 1..Len(Stored) :
                          /\ Stored[i].booking_id = resp[p].booking_id
                          /\ Stored[i].confirmation_code = resp[p].confirmation_code
                          /\ Stored[i].status = "confirmed"
                 \/ /\ resp[p].status = "failed"
                    /\ resp[p].reason # ""
                    /\ pre[p].path \in {<<"Validating">>, <<"Validating", "CheckingAvailability">>}
                    /\ file = pre[p].file

\* the minutes of the day at the reading of datetime.now() when p's call began
MinuteOfCall(p) == CalledAt(p).hour * 60 + CalledAt(p).minute

\* p's book_appointment call has returned for a weekday that is not past and a
\* start time that parses
BookingOnOpenDay(p) ==
    /\ BookingOf(p)
    /\ time_parses(resp[p].start_time)
    /\ weekday(strptime_date(resp[p].date)) \in 0..4
    /\ DayOf(resp[p].date) >= toordinal(CalledAt(p).date)

\* the start p asked for is off the 15-minute grid, outside 09:00..17:00 minus
\* the duration, overlaps a booking that was confirmed on that calendar date
\* when the call began, or has elapsed today
NotBookable(p) ==
    LET s == strptime_time(resp[p].start_time)
        d == APPOINTMENT_TYPES(resp[p].appointment_type).duration
    IN  \/ (s - 9 * 60) % 15 # 0
        \/ s < 9 * 60
        \/ s + d > 17 * 60
        \/ \E i \in 1..Len(Before(p)) :
              /\ Before(p)[i].status = "confirmed"
              /\ SameDay(Before(p)[i].date, resp[p].date)
              /\ Intersect(s, s + d, strptime_time(Before(p)[i].start_time),
                           strptime_time(Before(p)[i].end_time))
        \/ DayOf(resp[p].date) = toordinal(CalledAt(p).date) /\ s <= MinuteOfCall(p)

\* C21: book_appointment returns confirmed only if the requested start_time is
\* the start of a slot get_availability returns for the date and category when
\* the call begins; a start off the grid, outside business hours, overlapping a
\* confirmed booking of that date or elapsed today is rejected with "Time slot
\* is not available" and the store is as it was.
C21_OnlyOfferedSlotsAreBooked ==
    \A p \in Procs :
        BookingOnOpenDay(p)
        => /\ resp[p].status = "confirmed"
                => \E i \in 1..Len(get_availability(pre[p].file, CalledAt(p), resp[p].date,
                                                    resp[p].appointment_type).available_slots) :
                      get_availability(pre[p].file, CalledAt(p), resp[p].date,
                                       resp[p].appointment_type).available_slots[i].start_time
                          = resp[p].start_time
           /\ NotBookable(p)
                => /\ resp[p].status = "failed"
                   /\ resp[p].reason = "Time slot is not available"
                   /\ file = pre[p].file

\* p's query was for the date of datetime.now() when the call began
QueryForToday(p) ==
    QueryOf(p) /\ DayOf(resp[p].date) = toordinal(CalledAt(p).date)

\* no booking that was confirmed on the calendar date of p's query when the
\* call began intersects [s, e)
FreeOfBookings(p, s, e) ==
    \A i \in 1..Len(Before(p)) :
        ( /\ Before(p)[i].status = "confirmed"
          /\ SameDay(Before(p)[i].date, resp[p].date) )
        => ~ Intersect(s, e, strptime_time(Before(p)[i].start_time),
                       strptime_time(Before(p)[i].end_time))

\* C22: for today's date get_availability returns no slot that starts at or
\* before the hour and minute of the clock, and returns every candidate 09:00 +
\* 15k that starts after it, ends by 17:00 and overlaps no confirmed booking of
\* the date.
C22_TodayOnlyLaterSlots ==
    \A p \in Procs :
        (QueryForToday(p) /\ OnWeekday(resp[p].date))
        => LET d == APPOINTMENT_TYPES(resp[p].appointment_type).duration IN
           /\ \A i \in 1..Len(Slots(p)) :
                 strptime_time(Slots(p)[i].start_time) > MinuteOfCall(p)
           /\ \A k \in 0..((8 * 60 - d) \div 15) :
                 ( /\ 9 * 60 + 15 * k > MinuteOfCall(p)
                   /\ FreeOfBookings(p, 9 * 60 + 15 * k, 9 * 60 + 15 * k + d) )
                 => \E i \in 1..Len(Slots(p)) :
                       strptime_time(Slots(p)[i].start_time) = 9 * 60 + 15 * k

\* at 09:00 a query for today, where 09:00 to 09:30 is booked, has returned the
\* slots from 09:30 on
C22_Witness ==
    \E p \in Procs :
        /\ QueryForToday(p)
        /\ MinuteOfCall(p) = 9 * 60
        /\ ~ FreeOfBookings(p, 9 * 60 + 15, 9 * 60 + 30)
        /\ Len(Slots(p)) > 0
        /\ strptime_time(Slots(p)[1].start_time) = 9 * 60 + 30

\* p's check_availability has returned what it made of get_availability's
\* answer
CheckOf(p) == Returned(p, "check_availability") /\ pre[p].path = <<"get_availability">>

\* every candidate slot of the day p asked about intersects a booking that was
\* confirmed on that calendar date when the call began
EveryCandidateBooked(p) ==
    LET d == APPOINTMENT_TYPES(resp[p].appointment_type).duration IN
    \A k \in 0..((8 * 60 - d) \div 15) :
        ~ FreeOfBookings(p, 9 * 60 + 15 * k, 9 * 60 + 15 * k + d)

\* C23: when check_availability finds no slot, the reason it gives is the
\* cause: the weekend for a Saturday or Sunday, the past for a weekday before
\* today, and fully booked only when every candidate slot of the day overlaps a
\* confirmed booking.
C23_ReasonNamesTheCause ==
    \A p \in Procs :
        (CheckOf(p) /\ resp[p].total_slots = 0)
        => /\ resp[p].text \in {"The clinic is closed on weekends", "This date is in the past",
                                "The date is fully booked"}
           /\ resp[p].text = "The clinic is closed on weekends"
                 => weekday(strptime_date(resp[p].date)) \in {5, 6}
           /\ resp[p].text = "This date is in the past"
                 => DayOf(resp[p].date) < toordinal(CalledAt(p).date)
           /\ resp[p].text = "The date is fully booked"
                 => EveryCandidateBooked(p)

\* the string is a date written YYYY-MM-DD
WrittenAsDate(date_s) ==
    date_parses(date_s) /\ Len(date_s[1]) = 4 /\ Len(date_s[2]) = 2 /\ Len(date_s[3]) = 2

\* the string is a time written HH:MM
WrittenAsTime(time_s) == time_parses(time_s) /\ Len(time_s[1]) = 2 /\ Len(time_s[2]) = 2

\* C24: a book_appointment whose date is not written YYYY-MM-DD or whose start
\* time is not written HH:MM, and a check_availability whose date is not
\* written YYYY-MM-DD or whose type is none of the four, return an error and
\* neither read nor write the store.
C24_MalformedInputRejectedEarly ==
    \A p \in Procs :
        /\ ( /\ Returned(p, "book_appointment")
             /\ ~ (WrittenAsDate(resp[p].date) /\ WrittenAsTime(resp[p].start_time)) )
           => /\ resp[p].status = "failed"
              /\ pre[p].path = <<"Validating">>
              /\ file = pre[p].file
        /\ ( /\ Returned(p, "check_availability")
             /\ ~ (WrittenAsDate(resp[p].date) /\ resp[p].appointment_type \in Types) )
           => /\ resp[p].text \in {"Error: Invalid appointment type",
                                   "Error: Date must be in YYYY-MM-DD format"}
              /\ pre[p].path = <<>>
              /\ file = pre[p].file

\* the answer to p's query lists the slot [s, e)
Lists(p, s, e) ==
    \E i \in 1..Len(Slots(p)) :
        /\ strptime_time(Slots(p)[i].start_time) = s
        /\ strptime_time(Slots(p)[i].end_time) = e

\* C25: for a weekday after today get_availability returns exactly the
\* reference set: the candidates 09:00 + 15k that end by 17:00, without those
\* that intersect a confirmed booking of that date; nothing else is removed and
\* nothing else is added.
C25_SlotsAreTheReferenceSet ==
    \A p \in Procs :
        ( /\ QueryOf(p) /\ OnWeekday(resp[p].date)
          /\ DayOf(resp[p].date) > toordinal(CalledAt(p).date) )
        => LET d == APPOINTMENT_TYPES(resp[p].appointment_type).duration IN
           /\ \A k \in 0..((8 * 60 - d) \div 15) :
                 Lists(p, 9 * 60 + 15 * k, 9 * 60 + 15 * k + d)
                    <=> FreeOfBookings(p, 9 * 60 + 15 * k, 9 * 60 + 15 * k + d)
           /\ \A i \in 1..Len(Slots(p)) :
                 \E k \in 0..((8 * 60 - d) \div 15) :
                    /\ strptime_time(Slots(p)[i].start_time) = 9 * 60 + 15 * k
                    /\ strptime_time(Slots(p)[i].end_time) = 9 * 60 + 15 * k + d
           /\ resp[p].total_slots = Len(Slots(p))

\* no caller is in the middle of a call
Quiescent == \A p \in Procs : pc[p] \in {"idle", "returned"}

\* C26: with the calls of several callers interleaved at their reads and writes
\* of the store, whenever no call is under way every booking that was returned
\* confirmed is in the store, and every record cancel_appointment returned true
\* for is there and cancelled.
C26_NoCompletedEffectIsLost ==
    Quiescent
    => /\ \A g \in granted :
             \E i \in 1..Len(Stored) : [Stored[i] EXCEPT !.status = "confirmed"] = g
       /\ \A id \in cancelled :
             \E i \in 1..Len(Stored) :
                Stored[i].booking_id = id /\ Stored[i].status = "cancelled"

\* C27: book_appointment changes the store if and only if it returns
\* confirmed; then the store is the earlier records, unchanged, followed by one
\* confirmed record with the response's booking_id, confirmation_code, date,
\* start_time and end_time; a failed response has an empty booking_id and an
\* empty confirmation_code.
C27_BookingWritesItsRecordOnly ==
    \A p \in Procs :
        Returned(p, "book_appointment")
        => /\ (file # pre[p].file) <=> (resp[p].status = "confirmed")
           /\ resp[p].status = "confirmed"
                 => /\ file.kind = "json"
                    /\ Len(Stored) = Len(Before(p)) + 1
                    /\ SubSeq(Stored, 1, Len(Before(p))) = Before(p)
                    /\ Stored[Len(Stored)].status = "confirmed"
                    /\ Stored[Len(Stored)].booking_id = resp[p].booking_id
                    /\ Stored[Len(Stored)].confirmation_code = resp[p].confirmation_code
                    /\ Stored[Len(Stored)].date = resp[p].date
                    /\ Stored[Len(Stored)].start_time = resp[p].start_time
                    /\ Stored[Len(Stored)].end_time = resp[p].end_time
           /\ resp[p].status = "failed"
                 => resp[p].booking_id = <<>> /\ resp[p].confirmation_code = <<>>

\* the bookings cancel_appointment has returned true for, confirmed when
\* granted, on the calendar date of p's query or booking
CancelledOn(p) ==
    {g \in granted : g.booking_id \in cancelled /\ SameDay(g.date, resp[p].date)}

\* [s, e) intersects no record of the store that is on the calendar date of
\* p's call and counts as confirmed: one that is neither cancelled in the
\* store nor a booking cancel_appointment has returned true for
OnlyCancelledInTheWay(p, s, e) ==
    \A i \in 1..Len(Before(p)) :
        ( /\ SameDay(Before(p)[i].date, resp[p].date)
          /\ Before(p)[i].status = "confirmed"
          /\ Before(p)[i].booking_id \notin cancelled )
        => ~ Intersect(s, e, strptime_time(Before(p)[i].start_time),
                       strptime_time(Before(p)[i].end_time))

\* C28: once cancel_appointment has returned true for a confirmed booking, a
\* get_availability for its date lists every slot that overlapped only that
\* booking (and has not elapsed), a book_appointment for its date and start is
\* confirmed with another booking_id, and whenever no call is under way the
\* cancelled record is in the store.
C28_CancelledSlotIsFreeAgain ==
    \A p \in Procs :
        /\ ( /\ QueryOf(p) /\ OnWeekday(resp[p].date)
             /\ DayOf(resp[p].date) > toordinal(CalledAt(p).date) )
           => \A g \in CancelledOn(p) :
                 LET d == APPOINTMENT_TYPES(resp[p].appointment_type).duration IN
                 \A k \in 0..((8 * 60 - d) \div 15) :
                    ( /\ Intersect(9 * 60 + 15 * k, 9 * 60 + 15 * k + d,
                                   strptime_time(g.start_time), strptime_time(g.end_time))
                      /\ OnlyCancelledInTheWay(p, 9 * 60 + 15 * k, 9 * 60 + 15 * k + d) )
                    => Lists(p, 9 * 60 + 15 * k, 9 * 60 + 15 * k + d)
        /\ ( /\ BookingOnOpenDay(p)
             /\ DayOf(resp[p].date) > toordinal(CalledAt(p).date) )
           => \A g \in CancelledOn(p) :
                 ( /\ strptime_time(g.start_time) = strptime_time(resp[p].start_time)
                   /\ g.start_time = resp[p].start_time
                   /\ g.appointment_type = resp[p].appointment_type
                   /\ OnlyCancelledInTheWay(p, strptime_time(g.start_time),
                                            strptime_time(g.end_time)) )
                 => /\ resp[p].status = "confirmed"
                    /\ resp[p].booking_id # g.booking_id
        /\ Quiescent
           => \A g \in granted :
                 g.booking_id \in cancelled
                 => \E i \in 1..Len(Stored) :
                       Stored[i] = [g EXCEPT !.status = "cancelled"]

\* C29: when a book_appointment has returned confirmed, every record the store
\* held when the call began is still in the store, also when the booking could
\* not read the store.
C29_BookingKeepsEarlierRecords ==
    \A p \in Procs :
        (Returned(p, "book_appointment") /\ resp[p].status = "confirmed")
        => \A i \in 1..Len(Before(p)) :
              \E j \in 1..Len(Stored) : Stored[j] = Before(p)[i]

\* C30: get_availability leaves the store as it was, for every input; and when
\* a book_appointment has returned confirmed, the availability of every other
\* calendar date is what it was when the call began.
C30_AvailabilityReadsOnly ==
    \A p \in Procs :
        /\ Returned(p, "get_availability") => file = pre[p].file
        /\ ( /\ BookingOf(p) /\ resp[p].status = "confirmed" )
           => \A q \in Queries :
                 (date_parses(q[1]) /\ DayOf(q[1]) # DayOf(resp[p].date))
                 => get_availability(file, CalledAt(p), q[1], q[2])
                       = get_availability(pre[p].file, CalledAt(p), q[1], q[2])

====
